---------------------------- MODULE Spec2Model ----------------------------
(***************************************************************************)
(* A model of libunwindstack's memory layer (src/Memory.cpp).              *)
(*                                                                         *)
(* Modelled build: LP64 (size_t, uintptr_t and long as wide as uint64_t),  *)
(* so the "#if !defined(__LP64__)" guard of MemoryRemote::Read is compiled *)
(* out.  TLC's integers are 32 bits wide, so the 64-bit address space is   *)
(* scaled down: an address has AddrBits bits, UINT64_MAX is 2^AddrBits-1,  *)
(* and every unsigned operation of the source is taken modulo 2^AddrBits.  *)
(* Page sizes, the word size, the string chunk and the iovec limit are     *)
(* scaled with it; each scaled size is a named definition below.           *)
(*                                                                         *)
(* The module holds several specifications, one per component:             *)
(*   SpecCache    MemoryCache / MemoryThreadCache over a wrapped source    *)
(*   SpecRemote   MemoryRemote, one caller at a time                       *)
(*   SpecRace     MemoryRemote, concurrent callers                         *)
(*   SpecFile     MemoryFileAtOffset                                       *)
(*   SpecReads    Read of every variant on overflowing requests            *)
(*   SpecString   Memory::ReadString                                       *)
(*   SpecChunks   Memory::ReadString, also over adjacent ranges            *)
(*   SpecRanges   MemoryRanges                                             *)
(*   SpecVm       ProcessVmRead                                            *)
(***************************************************************************)
EXTENDS Integers, Sequences, FiniteSets, TLC

(***************************************************************************)
(* Scale of the model.                                                     *)
(***************************************************************************)
\* Width of uint64_t / size_t / uintptr_t in the model (64 in the program).
AddrBits == 4
\* log2 of MemoryCache's page size (kCacheBits, 12 in the program).
kCacheBits == 2
AddrSpace == 2 ^ AddrBits
UINT64_MAX == AddrSpace - 1
Addr == 0 .. UINT64_MAX
\* The threads calling into one object.
Threads == {1, 2}

\* Unsigned arithmetic of the source: results are truncated to the width.
Wrap(x) == x % AddrSpace
\* __builtin_add_overflow(a, b, &r): TRUE when a + b does not fit.
AddOverflow(a, b) == a + b > UINT64_MAX
Min(a, b) == IF a < b THEN a ELSE b

VARIABLES
  readable,      \* addresses of the backing store / target that can be read
  zeros,         \* addresses of the backing store that hold a zero byte
  ptReadable,    \* addresses of the target that ptrace(PTRACE_PEEKTEXT) can read
  vmAvail,       \* the process_vm_readv syscall is available and permitted
  variant,       \* "shared" (MemoryCache) or "thread" (MemoryThreadCache)
  thread_cache_, \* MemoryThreadCache::thread_cache_ holds a key
  cache_,        \* per key, [alloc, pages]: the cache map of that key
  read_redirect_func_, \* MemoryRemote::read_redirect_func_
  pinned,        \* the strategy that first returned a non-zero count (history)
  pc,            \* per thread, the MemoryRemote::Read call it is executing
  data_,         \* MemoryFileAtOffset::data_: the mapping, or "null"
  size_,         \* MemoryFileAtOffset::size_
  offset_,       \* MemoryFileAtOffset::offset_
  init_result,   \* what the most recent MemoryFileAtOffset::Init returned (history)
  maps_,         \* MemoryRanges::maps_: upper bound -> range
  inserted,      \* every range handed to MemoryRanges::Insert (history)
  memory,        \* the Memory object a caller reads through (tagged variant)
  crashed,       \* the process has died of undefined behaviour
  last           \* the call that returned last, with what it returned

envVars == <<readable, zeros, ptReadable, vmAvail>>
cacheVars == <<variant, thread_cache_, cache_>>
remoteVars == <<read_redirect_func_, pinned, pc>>
fileVars == <<data_, size_, offset_, init_result>>
rangesVars == <<maps_, inserted>>
objVars == <<fileVars, rangesVars, memory>>
vars == <<envVars, cacheVars, remoteVars, objVars, crashed, last>>

\* The values of the variables a specification does not use.
NoCacheObject == variant = "none" /\ thread_cache_ = FALSE /\ cache_ = <<>>
NoRemoteObject == read_redirect_func_ = "null" /\ pinned = "null" /\ pc = <<>>
\* data_ == nullptr.
NullData == [mapped |-> FALSE, file |-> "", aligned_offset |-> 0, len |-> 0]
NoFileObject ==
  data_ = NullData /\ size_ = 0 /\ offset_ = 0 /\ init_result = "none"
NoRangesObject == maps_ = <<>> /\ inserted = {}
\* No object is read through the Memory interface.
NoMemory == [kind |-> "none"]

(***************************************************************************)
(* The backing store: fixed contents, some addresses unreadable.           *)
(***************************************************************************)
\* The byte stored at address a.
ByteAt(a) == IF a \in zeros THEN 0 ELSE (a % 5) + 1

\* The bytes at [addr, addr + n).
Bytes(addr, n) == [i \in 1 .. n |-> ByteAt(addr + i - 1)]

\* Length of the longest readable prefix of [addr, addr + size); addresses
\* past the end of the address space are not readable.
RECURSIVE PrefixLen(_, _)
PrefixLen(addr, size) ==
  IF size = 0 \/ addr > UINT64_MAX \/ addr \notin readable
    THEN 0
    ELSE 1 + PrefixLen(addr + 1, size - 1)

\* Memory::Read of the wrapped source (impl_): copies the longest readable
\* prefix and returns its length.
ImplRead(addr, size) ==
  LET n == PrefixLen(addr, size)
  IN [n |-> n, data |-> Bytes(addr, n)]

(***************************************************************************)
(* MemoryCacheBase::InternalCachedRead, MemoryCache, MemoryThreadCache.    *)
(***************************************************************************)
kCacheSize == 2 ^ kCacheBits
kCacheMask == kCacheSize - 1

EmptyMap == [p \in {} |-> <<>>]
NoCache == [alloc |-> FALSE, pages |-> EmptyMap]

\* addr_page << kCacheBits, in uint64_t.
PageBase(addr_page) == Wrap(addr_page * kCacheSize)

\* (*cache)[addr_page] followed by impl_->ReadFully(base, cache_dst,
\* kCacheSize): the slot is created zero-filled and the read overwrites its
\* first bytes with whatever it copied.
FillSlot(cache, addr_page) ==
  LET r == ImplRead(PageBase(addr_page), kCacheSize)
      slot == [i \in 1 .. kCacheSize |-> IF i <= r.n THEN r.data[i] ELSE 0]
  IN [ok |-> r.n = kCacheSize,
      cache |-> [p \in DOMAIN cache \cup {addr_page} |->
                   IF p = addr_page THEN slot ELSE cache[p]]]

\* A plausible slip: the failed fill's slot stays in the map.
EraseEntry_Kept(cache, addr_page) == cache

\* cache->erase(addr_page).
EraseEntry(cache, addr_page) ==
  [p \in DOMAIN cache \ {addr_page} |-> cache[p]]

\* The second half of InternalCachedRead: the read crossed into the next page.
CachedReadSecond(addr, size, cache1, first, max_read, page2) ==
  LET hit == page2 \in DOMAIN cache1
      f == FillSlot(cache1, page2)
  IN IF ~hit /\ ~f.ok
       THEN LET r == ImplRead(PageBase(page2), size - max_read)
            IN [n |-> Wrap(r.n + max_read), data |-> first \o r.data,
                cache |-> EraseEntry(f.cache, page2), failed |-> {page2}]
       ELSE LET cache2 == IF hit THEN cache1 ELSE f.cache
            IN [n |-> size,
                data |-> first \o SubSeq(cache2[page2], 1, size - max_read),
                cache |-> cache2, failed |-> {}]

\* MemoryCacheBase::InternalCachedRead(addr, dst, size, cache): the count
\* returned, the bytes left in dst, the cache map afterwards, and the pages
\* whose fill failed during the call.
InternalCachedRead(addr, size, cache) ==
  LET addr_page == addr \div kCacheSize
      hit == addr_page \in DOMAIN cache
      f == FillSlot(cache, addr_page)
  IN IF ~hit /\ ~f.ok
       THEN LET r == ImplRead(addr, size)
            IN [n |-> r.n, data |-> r.data,
                cache |-> EraseEntry(f.cache, addr_page), failed |-> {addr_page}]
       ELSE LET cache1 == IF hit THEN cache ELSE f.cache
                cache_dst == cache1[addr_page]
                max_read == Wrap(PageBase(addr_page + 1) - addr + AddrSpace)
                off == addr % kCacheSize
            IN IF size <= max_read
                 THEN [n |-> size, data |-> SubSeq(cache_dst, off + 1, off + size),
                       cache |-> cache1, failed |-> {}]
                 ELSE CachedReadSecond(addr, size, cache1,
                                       SubSeq(cache_dst, off + 1, off + max_read),
                                       max_read, addr_page + 1)

\* A request the cache supports: it touches at most two cache pages (the
\* second memcpy copies size - max_read bytes out of one page).
TwoPages(addr, size) == size <= (kCacheSize - (addr % kCacheSize)) + kCacheSize

\* The key of the cache map a thread uses: the one map of MemoryCache, or
\* the calling thread's own map of MemoryThreadCache.
KeyOf(t) == IF variant = "shared" THEN 0 ELSE t
Keys == {0} \cup Threads

\* No call is in progress and no result is waiting for its caller.
Idle == [op |-> "none"]

\* Sources the cache is tried on: one readable interval whose ends lie on
\* half pages, and optionally the last page of the address space.
HalfPage == kCacheSize \div 2
Bounds == {b \in 0 .. AddrSpace : b % HalfPage = 0}
LastPage == (AddrSpace - kCacheSize) .. UINT64_MAX

InitCache ==
  /\ \/ \E lo \in {0, HalfPage}, hi \in Bounds : 
          /\ hi <= 2 * kCacheSize
          /\ readable = lo .. hi - 1
     \/ \E hi \in Bounds :
          /\ hi <= kCacheSize
          /\ readable = (0 .. hi - 1) \cup LastPage
  /\ zeros = {} /\ ptReadable = {} /\ vmAvail = FALSE
  /\ NoRemoteObject /\ NoFileObject /\ NoRangesObject
  /\ memory = NoMemory
  /\ variant \in {"shared", "thread"}
  /\ thread_cache_ \in IF variant = "thread" THEN BOOLEAN ELSE {TRUE}
  /\ cache_ = [k \in Keys |->
                 IF variant = "shared" /\ k = 0
                   THEN [alloc |-> TRUE, pages |-> EmptyMap] ELSE NoCache]
  /\ crashed = FALSE
  /\ last = Idle

\* MemoryCache::CachedRead under cache_lock_, and MemoryThreadCache::CachedRead
\* with a key: InternalCachedRead on the caller's map (created on first use).
CachedRead(t, addr, size) ==
  /\ ~crashed /\ last = Idle
  /\ thread_cache_
  /\ TwoPages(addr, size)
  /\ LET k == KeyOf(t)
         r == InternalCachedRead(addr, size, cache_[k].pages)
     IN /\ cache_' = [cache_ EXCEPT ![k] = [alloc |-> TRUE, pages |-> r.cache]]
        /\ last' = [op |-> "read", key |-> k, addr |-> addr, size |-> size,
                    n |-> r.n, data |-> r.data,
                    failed |-> r.failed, before |-> cache_[k].pages]
  /\ UNCHANGED <<envVars, variant, thread_cache_, remoteVars, fileVars, rangesVars, memory, crashed>>

\* MemoryThreadCache::CachedRead when pthread_key_create failed: every read
\* goes to the wrapped source.
UncachedRead(t, addr, size) ==
  /\ ~crashed /\ last = Idle
  /\ ~thread_cache_
  /\ LET r == ImplRead(addr, size)
     IN last' = [op |-> "direct", key |-> t, addr |-> addr, size |-> size,
                 n |-> r.n, data |-> r.data,
                 failed |-> {}, before |-> EmptyMap]
  /\ UNCHANGED <<envVars, cacheVars, remoteVars, fileVars, rangesVars, memory, crashed>>

\* MemoryCache::Clear (under cache_lock_) and MemoryThreadCache::Clear with a
\* key: the caller's map is dropped.
Clear(t) ==
  /\ ~crashed /\ last = Idle
  /\ thread_cache_
  /\ LET k == KeyOf(t)
     IN /\ cache_' = [cache_ EXCEPT ![k] =
                        IF variant = "shared"
                          THEN [alloc |-> TRUE, pages |-> EmptyMap] ELSE NoCache]
        /\ last' = [op |-> "clear", key |-> k]
  /\ UNCHANGED <<envVars, variant, thread_cache_, remoteVars, fileVars, rangesVars, memory, crashed>>

\* MemoryThreadCache::Clear without a key dereferences the empty optional:
\* undefined behaviour.  The stray key either has no value for this thread
\* (nothing happens) or the process dies in delete.
ClearNoKey(t) ==
  /\ ~crashed /\ last = Idle
  /\ ~thread_cache_
  /\ crashed' \in BOOLEAN
  /\ last' = [op |-> "clear", key |-> t]
  /\ UNCHANGED <<envVars, cacheVars, remoteVars, fileVars, rangesVars, memory>>

\* The caller takes the result of the call that returned; the next call can
\* start.
ReturnCache ==
  /\ last # Idle
  /\ last' = Idle
  /\ UNCHANGED <<envVars, cacheVars, remoteVars, fileVars, rangesVars, memory, crashed>>

NextCache ==
  \/ \E t \in Threads, addr \in Addr, size \in 0 .. kCacheSize + 2 :
       CachedRead(t, addr, size)
  \/ \E t \in Threads, addr \in Addr, size \in 0 .. kCacheSize + 2 :
       UncachedRead(t, addr, size)
  \/ \E t \in Threads : Clear(t)
  \/ \E t \in Threads : ClearNoKey(t)
  \/ ReturnCache

SpecCache == InitCache /\ [][NextCache]_vars


\* C1: every page in a cache map holds the bytes of a successful full-page
\* read of the wrapped source at the page's base address; after a read, a
\* page whose fill failed is not in the map, and the pages that were cached
\* before a failed fill are still there with the same bytes.
C1_CachedPagesAreFilled ==
  /\ \A k \in Keys : \A p \in DOMAIN cache_[k].pages :
       /\ PrefixLen(PageBase(p), kCacheSize) = kCacheSize
       /\ cache_[k].pages[p] = Bytes(PageBase(p), kCacheSize)
  /\ last.op = "read" =>
       LET now == cache_[last.key].pages
       IN /\ last.failed \cap DOMAIN now = {}
          /\ last.failed # {} =>
               \A q \in DOMAIN last.before :
                 q \in DOMAIN now /\ now[q] = last.before[q]

\* A read filled its first page and failed to fill its second one while
\* another page was already cached.
C1_Witness ==
  /\ last.op = "read"
  /\ last.failed # {}
  /\ DOMAIN last.before # {}
  /\ Cardinality(DOMAIN cache_[last.key].pages) > Cardinality(DOMAIN last.before)

\* C2: a cached read of a request touching at most two pages returns the
\* count and the bytes a direct read of the wrapped source returns.
C2_CachedReadIsDirectRead ==
  last.op = "read" =>
    /\ last.n = ImplRead(last.addr, last.size).n
    /\ last.data = ImplRead(last.addr, last.size).data

\* The same restricted to the requests that end inside the address space
\* (a supporting fact: the only divergence is at the wrap-around).
InRangeCachedReadIsDirectRead ==
  (last.op = "read" /\ last.addr + last.size <= AddrSpace) =>
    /\ last.n = ImplRead(last.addr, last.size).n
    /\ last.data = ImplRead(last.addr, last.size).data


(***************************************************************************)
(* ProcessVmRead: the bulk path.                                           *)
(***************************************************************************)
\* log2 of getpagesize() (12 on the usual target).
PageBits == 1
\* kMaxIovecs (64 in the program).
kMaxIovecs == 2

PageSize == 2 ^ PageBits
UINTPTR_MAX == UINT64_MAX

\* The inner loop of ProcessVmRead: page-bounded source iovecs are added
\* until the request is covered or kMaxIovecs are in use.  abort: the loop
\* returned total_read (cur >= UINTPTR_MAX, or cur + iov_len overflowed).
RECURSIVE BuildIovecs(_, _, _)
BuildIovecs(cur, len, src_iovs) ==
  IF len = 0 \/ Len(src_iovs) = kMaxIovecs
    THEN [abort |-> FALSE, iovs |-> src_iovs, cur |-> cur, len |-> len]
    ELSE IF cur >= UINTPTR_MAX
           THEN [abort |-> TRUE, iovs |-> src_iovs, cur |-> cur, len |-> len]
           ELSE LET misalignment == cur % PageSize
                    iov_len == Min(PageSize - misalignment, len)
                IN IF AddOverflow(cur, iov_len)
                     THEN [abort |-> TRUE, iovs |-> src_iovs, cur |-> cur,
                           len |-> len - iov_len]
                     ELSE BuildIovecs(cur + iov_len, len - iov_len,
                            Append(src_iovs, [iov_base |-> cur, iov_len |-> iov_len]))

\* An iovec of the target the kernel can copy.
IovReadable(iov) ==
  \A a \in iov.iov_base .. iov.iov_base + iov.iov_len - 1 : a \in readable

\* The bytes of the leading iovecs the kernel can copy: a transfer stops at
\* the first iovec that points to an invalid region and never splits one.
RECURSIVE Transfer(_)
Transfer(iovs) ==
  IF iovs = <<>> \/ ~IovReadable(Head(iovs))
    THEN <<>>
    ELSE Bytes(Head(iovs).iov_base, Head(iovs).iov_len) \o Transfer(Tail(iovs))

\* syscall(__NR_process_vm_readv, pid, &dst_iov, 1, src_iovs, iovecs_used, 0):
\* the number of bytes transferred, or -1 when the call fails (no syscall,
\* no permission, or nothing could be transferred).
ProcessVmReadv(iovs) ==
  LET data == IF vmAvail THEN Transfer(iovs) ELSE <<>>
  IN IF data = <<>> THEN [rc |-> -1, data |-> <<>>]
                    ELSE [rc |-> Len(data), data |-> data]

\* The outer loop of ProcessVmRead: one syscall per batch of iovecs, each
\* writing at dst[total_read].
RECURSIVE VmLoop(_, _, _, _)
VmLoop(cur, len, total_read, dst) ==
  IF len = 0
    THEN [n |-> total_read, data |-> dst]
    ELSE LET b == BuildIovecs(cur, len, <<>>)
         IN IF b.abort
              THEN [n |-> total_read, data |-> dst]
              ELSE LET r == ProcessVmReadv(b.iovs)
                   IN IF r.rc = -1
                        THEN [n |-> total_read, data |-> dst]
                        ELSE VmLoop(b.cur, b.len, Wrap(total_read + r.rc),
                                    SubSeq(dst, 1, total_read) \o r.data)

\* ProcessVmRead(pid, remote_src, dst, len): the count returned and the
\* bytes written to dst.
ProcessVmRead(remote_src, len) == VmLoop(remote_src, len, 0, <<>>)

(***************************************************************************)
(* PtraceRead: the word-at-a-time path.                                    *)
(***************************************************************************)
\* log2 of sizeof(long) (3 in the program).
WordBits == 1
WordSize == 2 ^ WordBits

\* PtraceReadLong(pid, addr, &value): ptrace(PTRACE_PEEKTEXT) reads the word
\* at addr; it fails (-1 with errno set) when the word cannot be read.
PtraceReadLong(addr) ==
  [ok |-> \A a \in addr .. addr + WordSize - 1 : a \in ptReadable,
   data |-> Bytes(addr, WordSize)]

\* The loop over the full words of PtraceRead, from word i on.
RECURSIVE PtraceWords(_, _, _, _)
PtraceWords(addr, i, count, dst) ==
  IF i >= count
    THEN [ok |-> TRUE, addr |-> addr, data |-> dst]
    ELSE LET w == PtraceReadLong(addr)
         IN IF ~w.ok
              THEN [ok |-> FALSE, addr |-> addr, data |-> dst]
              ELSE PtraceWords(addr + WordSize, i + 1, count, dst \o w.data)

\* PtraceRead(pid, addr, dst, bytes).
PtraceRead(addr, bytes) ==
  IF AddOverflow(addr, bytes)
    THEN [n |-> 0, data |-> <<>>]
    ELSE
      LET align_bytes == addr % WordSize
          head == PtraceReadLong(addr - align_bytes)
      IN IF align_bytes # 0 /\ ~head.ok
           THEN [n |-> 0, data |-> <<>>]
           ELSE
             LET copy_bytes == IF align_bytes # 0
                                 THEN Min(WordSize - align_bytes, bytes) ELSE 0
                 dst0 == SubSeq(head.data, align_bytes + 1, align_bytes + copy_bytes)
                 addr1 == addr + copy_bytes
                 bytes1 == bytes - copy_bytes
                 mid == PtraceWords(addr1, 0, bytes1 \div WordSize, dst0)
                 left_over == bytes1 % WordSize
                 tail == PtraceReadLong(mid.addr)
             IN IF ~mid.ok \/ left_over = 0 \/ ~tail.ok
                  THEN [n |-> Len(mid.data), data |-> mid.data]
                  ELSE [n |-> Len(mid.data) + left_over,
                        data |-> mid.data \o SubSeq(tail.data, 1, left_over)]

(***************************************************************************)
(* MemoryRemote::Read.                                                     *)
(***************************************************************************)
\* The build defines __LP64__: the check of addr against UINT32_MAX is
\* compiled out.
LP64 == TRUE

\* A plausible slip: the function is recorded whatever it returned.
Record_Always(func, bytes, cur) == func

\* if (bytes > 0) read_redirect_func_ = func: the value read_redirect_func_
\* holds afterwards.
Record(func, bytes, cur) == IF bytes > 0 THEN func ELSE cur

\* Calling through a function pointer held in read_redirect_func_.
CallFunc(func, addr, size) ==
  IF func = "ProcessVmRead" THEN ProcessVmRead(addr, size) ELSE PtraceRead(addr, size)

\* MemoryRemote::Read(addr, dst, size) by one caller: the result, the
\* functions it called with what each returned, and read_redirect_func_
\* afterwards.
RemoteRead(addr, size, read_func) ==
  IF read_func # "null"
    THEN LET r == CallFunc(read_func, addr, size)
         IN [n |-> r.n, data |-> r.data, redirect |-> read_func,
             calls |-> <<[func |-> read_func, n |-> r.n]>>]
    ELSE LET v == ProcessVmRead(addr, size)
             p == PtraceRead(addr, size)
         IN IF v.n > 0
              THEN [n |-> v.n, data |-> v.data,
                    redirect |-> Record("ProcessVmRead", v.n, read_func),
                    calls |-> <<[func |-> "ProcessVmRead", n |-> v.n]>>]
              ELSE [n |-> p.n, data |-> p.data,
                    redirect |-> Record("PtraceRead", p.n, read_func),
                    calls |-> <<[func |-> "ProcessVmRead", n |-> v.n],
                                [func |-> "PtraceRead", n |-> p.n]>>]

\* The strategy that first returned a non-zero count, given the one known
\* so far and the calls of one more Read.
FirstNonZero(known, calls) ==
  IF known # "null" THEN known
  ELSE IF \E i \in 1 .. Len(calls) : calls[i].n > 0
         THEN calls[CHOOSE i \in 1 .. Len(calls) :
                      calls[i].n > 0 /\ \A j \in 1 .. i - 1 : calls[j].n = 0].func
         ELSE "null"

\* Targets the remote reads are tried on: the first pages readable through
\* process_vm_readv, the first words through ptrace.
PageEnds == {0, PageSize, 3 * PageSize}
WordEnds == {0, WordSize, 2 * PageSize + WordSize, AddrSpace}

InitTarget ==
  /\ \E e \in PageEnds : readable = 0 .. e - 1
  /\ \E e \in WordEnds : ptReadable = 0 .. e - 1
  /\ vmAvail \in BOOLEAN
  /\ zeros = {}

InitRemote ==
  /\ InitTarget
  /\ NoCacheObject /\ NoFileObject /\ NoRangesObject
  /\ memory = NoMemory
  /\ read_redirect_func_ = "null" /\ pinned = "null" /\ pc = <<>>
  /\ crashed = FALSE
  /\ last = Idle

\* One MemoryRemote::Read call, from entry to return.
RemoteReadCall(addr, size) ==
  /\ last = Idle
  /\ LET r == RemoteRead(addr, size, read_redirect_func_)
     IN /\ read_redirect_func_' = r.redirect
        /\ pinned' = FirstNonZero(pinned, r.calls)
        /\ last' = [op |-> "read", addr |-> addr, size |-> size, n |-> r.n,
                    data |-> r.data, calls |-> r.calls, known |-> pinned]
  /\ UNCHANGED <<envVars, cacheVars, pc, fileVars, rangesVars, memory, crashed>>

ReturnRemote ==
  /\ last # Idle
  /\ last' = Idle
  /\ UNCHANGED <<envVars, cacheVars, remoteVars, fileVars, rangesVars, memory, crashed>>

RemoteSizes == 0 .. (PageSize + WordSize + 1)

NextRemote ==
  \/ \E addr \in Addr, size \in RemoteSizes : RemoteReadCall(addr, size)
  \/ ReturnRemote

SpecRemote == InitRemote /\ [][NextRemote]_vars

\* C3: while no strategy has returned a non-zero count a Read calls the bulk
\* path first and the ptrace path only when the bulk path returned 0; once a
\* strategy has returned a non-zero count every later Read calls that
\* strategy and nothing else, whatever it returns.
C3_StickyStrategy ==
  last.op = "read" =>
    IF last.known = "null"
      THEN /\ last.calls[1].func = "ProcessVmRead"
           /\ Len(last.calls) = (IF last.calls[1].n > 0 THEN 1 ELSE 2)
           /\ Len(last.calls) = 2 => last.calls[2].func = "PtraceRead"
      ELSE /\ Len(last.calls) = 1
           /\ last.calls[1].func = last.known

\* A Read after the ptrace path was recorded called the ptrace path alone,
\* which returned 0.
C3_Witness ==
  /\ last.op = "read"
  /\ last.known = "PtraceRead"
  /\ last.calls = <<[func |-> "PtraceRead", n |-> 0]>>


(***************************************************************************)
(* MemoryRemote::Read called by several threads at once.                   *)
(***************************************************************************)
NotCalling == [at |-> "idle", addr |-> 0, size |-> 0, func |-> "null"]

InitRace ==
  /\ InitTarget
  /\ NoCacheObject /\ NoFileObject /\ NoRangesObject
  /\ memory = NoMemory
  /\ read_redirect_func_ = "null" /\ pinned = "null"
  /\ pc = [t \in Threads |-> NotCalling]
  /\ crashed = FALSE
  /\ last = Idle

\* read_func = read_redirect_func_.load(), and the branch on it.
RaceLoad(t, addr, size) ==
  /\ pc[t].at = "idle"
  /\ pc' = [pc EXCEPT ![t] =
              [at |-> IF read_redirect_func_ # "null" THEN "direct" ELSE "vm",
               addr |-> addr, size |-> size, func |-> read_redirect_func_]]
  /\ UNCHANGED <<envVars, cacheVars, read_redirect_func_, pinned, objVars,
                 crashed, last>>

\* return read_func(pid_, addr, dst, size).
RaceDirect(t) ==
  /\ pc[t].at = "direct"
  /\ pc' = [pc EXCEPT ![t] = NotCalling]
  /\ UNCHANGED <<envVars, cacheVars, read_redirect_func_, pinned, objVars,
                 crashed, last>>

\* bytes = ProcessVmRead(...); if (bytes > 0) { store; return bytes; }
RaceVm(t) ==
  /\ pc[t].at = "vm"
  /\ LET v == ProcessVmRead(pc[t].addr, pc[t].size)
     IN /\ read_redirect_func_' = Record("ProcessVmRead", v.n, read_redirect_func_)
        /\ pinned' = FirstNonZero(pinned, <<[func |-> "ProcessVmRead", n |-> v.n]>>)
        /\ pc' = [pc EXCEPT ![t] =
                    IF v.n > 0 THEN NotCalling ELSE [@ EXCEPT !.at = "pt"]]
  /\ UNCHANGED <<envVars, cacheVars, fileVars, rangesVars, memory, crashed, last>>

\* bytes = PtraceRead(...); if (bytes > 0) store; return bytes;
RacePt(t) ==
  /\ pc[t].at = "pt"
  /\ LET p == PtraceRead(pc[t].addr, pc[t].size)
     IN /\ read_redirect_func_' = Record("PtraceRead", p.n, read_redirect_func_)
        /\ pinned' = FirstNonZero(pinned, <<[func |-> "PtraceRead", n |-> p.n]>>)
        /\ pc' = [pc EXCEPT ![t] = NotCalling]
  /\ UNCHANGED <<envVars, cacheVars, fileVars, rangesVars, memory, crashed, last>>

RaceAddrs == {0, PageSize, 3 * PageSize}

NextRace ==
  \/ \E t \in Threads, addr \in RaceAddrs : RaceLoad(t, addr, WordSize)
  \/ \E t \in Threads : RaceDirect(t)
  \/ \E t \in Threads : RaceVm(t)
  \/ \E t \in Threads : RacePt(t)

SpecRace == InitRace /\ [][NextRace]_vars

\* C4: under concurrent Reads the strategy state only moves from unresolved
\* to a strategy; once it holds a strategy it is never overwritten with the
\* other one.
C4_StrategyNeverOverwritten ==
  [][read_redirect_func_ # "null" => read_redirect_func_' = read_redirect_func_]_vars

(***************************************************************************)
(* ProcessVmRead on its own.                                               *)
(***************************************************************************)
Pages == 0 .. (AddrSpace \div PageSize) - 1
PageAddrs(p) == p * PageSize .. (p + 1) * PageSize - 1

InitVm ==
  /\ \E ps \in SUBSET Pages : readable = UNION {PageAddrs(p) : p \in ps}
  /\ vmAvail \in BOOLEAN
  /\ zeros = {} /\ ptReadable = {}
  /\ NoCacheObject /\ NoRemoteObject /\ NoFileObject /\ NoRangesObject
  /\ memory = NoMemory
  /\ crashed = FALSE
  /\ last = Idle

VmReadCall(remote_src, len) ==
  /\ last = Idle
  /\ LET r == ProcessVmRead(remote_src, len)
     IN last' = [op |-> "vm", addr |-> remote_src, size |-> len,
                 n |-> r.n, data |-> r.data]
  /\ UNCHANGED <<envVars, cacheVars, remoteVars, fileVars, rangesVars, memory, crashed>>

ReturnVm ==
  /\ last # Idle
  /\ last' = Idle
  /\ UNCHANGED <<envVars, cacheVars, remoteVars, fileVars, rangesVars, memory, crashed>>

VmSizes == 0 .. (kMaxIovecs + 2) * PageSize

NextVm ==
  \/ \E remote_src \in Addr, len \in VmSizes : VmReadCall(remote_src, len)
  \/ ReturnVm

SpecVm == InitVm /\ [][NextVm]_vars

\* C9: ProcessVmRead returns a count n with 0 <= n <= len, and the n bytes
\* it wrote to dst are the target's bytes at [remote_src, remote_src + n).
C9_BulkReadIsPrefix ==
  last.op = "vm" =>
    /\ 0 <= last.n /\ last.n <= last.size
    /\ Len(last.data) = last.n
    /\ last.data = Bytes(last.addr, last.n)


(***************************************************************************)
(* MemoryFileAtOffset.                                                     *)
(***************************************************************************)
\* The files of the model: their sizes (st_size); "missing" cannot be opened.
FileNames == {"missing", "empty", "short", "long"}
StSize(file) ==
  IF file = "empty" THEN 0
  ELSE IF file = "short" THEN PageSize
  ELSE 2 * PageSize + 1

\* The byte at an offset of a file.
FileByte(file, off) == (off % 5) + 1

\* MemoryFileAtOffset::Clear(): the mapping is released and data_ is reset;
\* size_ and offset_ keep their values.
FileClear(data) == NullData

\* MemoryFileAtOffset::Init(file, offset, size): the value returned and the
\* fields afterwards.  fstat_ok and mmap_ok are the environment's answers
\* to fstat and to an mmap of a non-zero length.
FileInit(file, offset, size, fstat_ok, mmap_ok) ==
  LET cleared == FileClear(data_)
      keep == [ret |-> FALSE, data |-> cleared, size |-> size_, offset |-> offset_]
  IN IF file = "missing" THEN keep
     ELSE IF ~fstat_ok THEN keep
     ELSE IF offset >= StSize(file) THEN keep
     ELSE
       LET off == offset % PageSize
           aligned_offset == offset - off
       IN IF aligned_offset > StSize(file) \/ offset > StSize(file)
            THEN [keep EXCEPT !.offset = off]
            ELSE
              LET whole == StSize(file) - aligned_offset
                  max_size == size + off
                  map_len == IF ~AddOverflow(size, off) /\ max_size < whole
                               THEN max_size ELSE whole
              IN IF map_len = 0 \/ ~mmap_ok
                   THEN [ret |-> FALSE, data |-> cleared, size |-> map_len,
                         offset |-> off]
                   ELSE [ret |-> TRUE,
                         data |-> [mapped |-> TRUE, file |-> file,
                                   aligned_offset |-> aligned_offset,
                                   len |-> map_len],
                         size |-> map_len - off, offset |-> off]

\* MemoryFileAtOffset::Read(addr, dst, size).  With data_ == nullptr and a
\* non-empty copy, memcpy reads through a null-based pointer: undefined
\* behaviour (fault is TRUE).
FileRead(addr, size) ==
  IF addr >= size_
    THEN [n |-> 0, data |-> <<>>, fault |-> FALSE]
    ELSE LET bytes_left == size_ - addr
             actual_len == Min(bytes_left, size)
         IN IF data_.mapped
              THEN [n |-> actual_len, fault |-> FALSE,
                    data |-> [i \in 1 .. actual_len |->
                                FileByte(data_.file,
                                  data_.aligned_offset + offset_ + addr + i - 1)]]
              ELSE [n |-> actual_len, data |-> <<>>, fault |-> actual_len > 0]

InitFile ==
  /\ readable = {} /\ zeros = {} /\ ptReadable = {} /\ vmAvail = FALSE
  /\ NoCacheObject /\ NoRemoteObject /\ NoRangesObject
  /\ memory = NoMemory
  /\ NoFileObject
  /\ crashed = FALSE
  /\ last = Idle

FileInitCall(file, offset, size, fstat_ok, mmap_ok) ==
  /\ ~crashed /\ last = Idle
  /\ LET r == FileInit(file, offset, size, fstat_ok, mmap_ok)
     IN /\ data_' = r.data
        /\ size_' = r.size
        /\ offset_' = r.offset
        /\ init_result' = IF r.ret THEN "true" ELSE "false"
        /\ last' = [op |-> "init", ret |-> r.ret]
  /\ UNCHANGED <<envVars, cacheVars, remoteVars, rangesVars, memory, crashed>>

\* MemoryFileAtOffset::Clear() called on its own: the mapping is released,
\* size_ and offset_ stay.
FileClearCall ==
  /\ ~crashed /\ last = Idle
  /\ data_' = FileClear(data_)
  /\ last' = [op |-> "clear"]
  /\ UNCHANGED <<envVars, cacheVars, remoteVars, size_, offset_, init_result,
                 rangesVars, memory, crashed>>

\* A Read; where the behaviour is undefined the process either dies or the
\* copy goes through and dst holds bytes that are not the file's.
FileReadCall(addr, size) ==
  /\ ~crashed /\ last = Idle
  /\ LET r == FileRead(addr, size)
     IN /\ last' = [op |-> "read", addr |-> addr, size |-> size, n |-> r.n,
                    data |-> r.data, fault |-> r.fault]
        /\ IF r.fault THEN crashed' \in BOOLEAN ELSE crashed' = crashed
  /\ UNCHANGED <<envVars, cacheVars, remoteVars, fileVars, rangesVars, memory>>

ReturnFile ==
  /\ ~crashed /\ last # Idle
  /\ last' = Idle
  /\ UNCHANGED <<envVars, cacheVars, remoteVars, fileVars, rangesVars, memory, crashed>>

FileOffsets == 0 .. 2 * PageSize + 1
FileSizes == {0, 1, PageSize + 1, UINT64_MAX}
FileReadSizes == {0, 1, PageSize + 1}

NextFile ==
  \/ \E file \in FileNames, offset \in FileOffsets, size \in FileSizes,
        fstat_ok \in BOOLEAN, mmap_ok \in BOOLEAN :
       FileInitCall(file, offset, size, fstat_ok, mmap_ok)
  \/ FileClearCall
  \/ \E addr \in Addr, size \in FileReadSizes : FileReadCall(addr, size)
  \/ ReturnFile

SpecFile == InitFile /\ [][NextFile]_vars

\* C5: when the most recent Init returned false, a Read returns 0 and
\* copies nothing.
C5_FailedInitIsInert ==
  (last.op = "read" /\ init_result = "false") =>
    /\ ~last.fault
    /\ last.n = 0
    /\ last.data = <<>>

(***************************************************************************)
(* The Memory variants behind the one Read interface.                      *)
(***************************************************************************)
\* The objects a caller can hold.  MemoryFileAtOffset keeps its fields in
\* data_, size_ and offset_, MemoryRanges keeps its map in maps_.
Impl == [kind |-> "impl"]
NullPtr == [kind |-> "nullptr"]
MemoryBuffer(size) == [kind |-> "MemoryBuffer", size_ |-> size]
MemoryFileAtOffset == [kind |-> "MemoryFileAtOffset"]
MemoryRange(impl, begin, length, offset) ==
  [kind |-> "MemoryRange", memory_ |-> impl, begin_ |-> begin,
   length_ |-> length, offset_ |-> offset]
MemoryRanges == [kind |-> "MemoryRanges"]
MemoryOfflineBuffer(start, end) ==
  [kind |-> "MemoryOfflineBuffer", start_ |-> start, end_ |-> end]
MemoryOffline(range) == [kind |-> "MemoryOffline", memory_ |-> range]
BulkPath == [kind |-> "ProcessVmRead"]
PtracePath == [kind |-> "PtraceRead"]

\* A read that copies nothing.
NoBytes == [n |-> 0, data |-> <<>>, fault |-> FALSE]

\* MemoryBuffer::Read(addr, dst, size); raw_[i] holds ByteAt(i).
MemoryBufferRead(m, addr, size) ==
  IF addr >= m.size_
    THEN NoBytes
    ELSE LET bytes_left == m.size_ - addr
             actual_len == Min(bytes_left, size)
         IN [n |-> actual_len, data |-> Bytes(addr, actual_len), fault |-> FALSE]

\* MemoryOfflineBuffer::Read(addr, dst, size); data_[k] holds the byte
\* captured at start_ + k.
MemoryOfflineBufferRead(m, addr, size) ==
  IF addr < m.start_ \/ addr >= m.end_
    THEN NoBytes
    ELSE LET read_length == Min(size, m.end_ - addr)
         IN [n |-> read_length, data |-> Bytes(addr, read_length), fault |-> FALSE]

\* maps_.upper_bound(addr): the entry with the smallest key greater than
\* addr, NullPtr for maps_.end().
UpperBound(maps, addr) ==
  LET above == {k \in DOMAIN maps : k > addr}
  IN IF above = {} THEN NullPtr
     ELSE maps[CHOOSE k \in above : \A j \in above : k <= j]

RECURSIVE Read(_, _, _)
RECURSIVE MemoryRangeRead(_, _, _)

\* MemoryRange::Read(addr, dst, size).
MemoryRangeRead(m, addr, size) ==
  IF addr < m.offset_
    THEN NoBytes
    ELSE LET read_offset == addr - m.offset_
         IN IF read_offset >= m.length_
              THEN NoBytes
              ELSE LET read_length == Min(size, m.length_ - read_offset)
                   IN IF AddOverflow(read_offset, m.begin_)
                        THEN NoBytes
                        ELSE Read(m.memory_, read_offset + m.begin_, read_length)

\* MemoryRanges::Read(addr, dst, size).
MemoryRangesRead(addr, size) ==
  LET entry == UpperBound(maps_, addr)
  IN IF entry # NullPtr THEN MemoryRangeRead(entry, addr, size) ELSE NoBytes

\* MemoryOffline::Read(addr, dst, size).
MemoryOfflineRead(m, addr, size) ==
  IF m.memory_ = NullPtr THEN NoBytes ELSE MemoryRangeRead(m.memory_, addr, size)

\* Memory::Read, dispatched on the object's variant.
Read(m, addr, size) ==
  CASE m.kind = "impl" ->
         LET r == ImplRead(addr, size)
         IN [n |-> r.n, data |-> r.data, fault |-> FALSE]
    [] m.kind = "MemoryBuffer" -> MemoryBufferRead(m, addr, size)
    [] m.kind = "MemoryFileAtOffset" -> FileRead(addr, size)
    [] m.kind = "MemoryRange" -> MemoryRangeRead(m, addr, size)
    [] m.kind = "MemoryRanges" -> MemoryRangesRead(addr, size)
    [] m.kind = "MemoryOfflineBuffer" -> MemoryOfflineBufferRead(m, addr, size)
    [] m.kind = "MemoryOffline" -> MemoryOfflineRead(m, addr, size)
    [] m.kind = "ProcessVmRead" ->
         LET r == ProcessVmRead(addr, size)
         IN [n |-> r.n, data |-> r.data, fault |-> FALSE]
    [] m.kind = "PtraceRead" ->
         LET r == PtraceRead(addr, size)
         IN [n |-> r.n, data |-> r.data, fault |-> FALSE]

\* MemoryRanges::Insert(memory): the map afterwards.  emplace leaves the map
\* as it is when the key is already present.
RangesInsert(maps, range) ==
  LET last_addr == IF AddOverflow(range.offset_, range.length_)
                     THEN UINT64_MAX
                     ELSE range.offset_ + range.length_
  IN IF last_addr \in DOMAIN maps
       THEN maps
       ELSE [k \in DOMAIN maps \cup {last_addr} |->
               IF k = last_addr THEN range ELSE maps[k]]

\* The windows [offset, offset + length) of two ranges share an address.
Overlap(r1, r2) ==
  LET lo == IF r1.offset_ > r2.offset_ THEN r1.offset_ ELSE r2.offset_
      hi == Min(r1.offset_ + r1.length_, r2.offset_ + r2.length_)
  IN lo < hi

\* The window of a range covers an address.
Covers(r, addr) == r.offset_ <= addr /\ addr < r.offset_ + r.length_

\* The most ranges one range-set is given.
MaxRanges == 2

RangeBegins == {0, PageSize}
RangeLengths == 0 .. PageSize + 1
RangeOffsets == {0, PageSize, UINT64_MAX - PageSize, UINT64_MAX}
Ranges ==
  {MemoryRange(Impl, b, l, o) :
     b \in RangeBegins, l \in RangeLengths, o \in RangeOffsets}

\* Insert of a range that overlaps none of the ranges inserted before.
InsertCall(range) ==
  /\ ~crashed /\ last = Idle
  /\ memory = MemoryRanges
  /\ Cardinality(inserted) < MaxRanges
  /\ range \notin inserted
  /\ \A r \in inserted : ~Overlap(r, range)
  /\ maps_' = RangesInsert(maps_, range)
  /\ inserted' = inserted \cup {range}
  /\ UNCHANGED <<envVars, cacheVars, remoteVars, fileVars, memory, crashed, last>>

\* A Read through the object; where the behaviour is undefined the process
\* either dies or goes on.
ReadCall(addr, size) ==
  /\ ~crashed /\ last = Idle
  /\ LET r == Read(memory, addr, size)
     IN /\ last' = [op |-> "read", addr |-> addr, size |-> size, n |-> r.n,
                    data |-> r.data, fault |-> r.fault]
        /\ IF r.fault THEN crashed' \in BOOLEAN ELSE crashed' = crashed
  /\ UNCHANGED <<envVars, cacheVars, remoteVars, objVars>>

ReturnRead ==
  /\ ~crashed /\ last # Idle
  /\ last' = Idle
  /\ UNCHANGED <<envVars, cacheVars, remoteVars, objVars, crashed>>

ReadSizes == {0, 1, PageSize + 1}

InitRanges ==
  /\ readable = Addr /\ zeros = {} /\ ptReadable = {} /\ vmAvail = FALSE
  /\ NoCacheObject /\ NoRemoteObject /\ NoFileObject /\ NoRangesObject
  /\ memory = MemoryRanges
  /\ crashed = FALSE
  /\ last = Idle

NextRanges ==
  \/ \E range \in Ranges : InsertCall(range)
  \/ \E addr \in Addr, size \in ReadSizes : ReadCall(addr, size)
  \/ ReturnRead

SpecRanges == InitRanges /\ [][NextRanges]_vars

\* C8: a read of the range-set returns what the inserted range covering
\* addr returns for it, and 0 when no inserted range covers addr.
C8_ReadServedByCoveringRange ==
  last.op = "read" =>
    LET covering == {r \in inserted : Covers(r, last.addr)}
    IN /\ covering = {} => last.n = 0 /\ last.data = <<>>
       /\ \A r \in covering :
            LET d == MemoryRangeRead(r, last.addr, last.size)
            IN last.n = d.n /\ last.data = d.data

\* In a set of ranges whose windows end below the top of the address space
\* and none of which is empty, the covering range serves the read.
RangesBelowTopServed ==
  (/\ last.op = "read"
   /\ \A r \in inserted : r.length_ > 0 /\ ~AddOverflow(r.offset_, r.length_))
    => C8_ReadServedByCoveringRange


(***************************************************************************)
(* Reads whose addr + size overflows, through every variant.               *)
(***************************************************************************)
\* sizeof(start) in MemoryOffline::Init: a uint64_t, as wide as a long here.
SizeofStart == WordSize

\* The uint64_t that memcpy builds from bytes i .. Len(bytes) (little
\* endian), at the width of the model's addresses.
RECURSIVE LoadWord(_, _)
LoadWord(bytes, i) ==
  IF i > Len(bytes)
    THEN 0
    ELSE Wrap(bytes[i] + (2 ^ (AddrBits \div WordSize)) * LoadWord(bytes, i + 1))

\* MemoryOffline::Init(file, offset): the value returned, the fields of the
\* new memory_file and the new memory_.
OfflineInit(file, offset, fstat_ok, mmap_ok) ==
  LET f == FileInit(file, offset, UINT64_MAX, fstat_ok, mmap_ok)
      failed == [ret |-> FALSE, file |-> f, memory |-> NullPtr]
  IN IF ~f.ret THEN failed
     ELSE IF f.size < SizeofStart THEN failed
     ELSE
       LET header == [i \in 1 .. SizeofStart |->
                        FileByte(file, f.data.aligned_offset + f.offset + i - 1)]
           start == LoadWord(header, 1)
           size == f.size - SizeofStart
       IN [ret |-> TRUE, file |-> f,
           memory |-> MemoryRange(MemoryFileAtOffset, SizeofStart, size, start)]

\* A failed Init leaves memory_ (and the file it reads) as it was.
OfflineInitCall(file, offset, fstat_ok, mmap_ok) ==
  /\ ~crashed /\ last = Idle
  /\ memory.kind = "MemoryOffline"
  /\ LET r == OfflineInit(file, offset, fstat_ok, mmap_ok)
     IN /\ IF r.ret
             THEN /\ memory' = MemoryOffline(r.memory)
                  /\ data_' = r.file.data
                  /\ size_' = r.file.size
                  /\ offset_' = r.file.offset
                  /\ init_result' = "true"
             ELSE UNCHANGED <<memory, fileVars>>
        /\ last' = [op |-> "init", ret |-> r.ret]
  /\ UNCHANGED <<envVars, cacheVars, remoteVars, rangesVars, crashed>>

\* MemoryOfflineBuffer::Reset(data, start, end).
ResetCall(start, end) ==
  /\ ~crashed /\ last = Idle
  /\ memory.kind = "MemoryOfflineBuffer"
  /\ memory' = MemoryOfflineBuffer(start, end)
  /\ last' = [op |-> "reset"]
  /\ UNCHANGED <<envVars, cacheVars, remoteVars, fileVars, rangesVars, crashed>>

OfflineBounds == {0, PageSize, UINT64_MAX}
ReadTargets ==
  {MemoryBuffer(size) : size \in {0, kCacheSize}}
    \cup {MemoryFileAtOffset, MemoryRanges, MemoryOffline(NullPtr), BulkPath,
          PtracePath}
    \cup Ranges
    \cup {MemoryOfflineBuffer(start, end) :
            start \in OfflineBounds, end \in OfflineBounds}

InitReads ==
  /\ readable \in {Addr, AddrSpace - kCacheSize .. UINT64_MAX}
  /\ ptReadable = readable /\ vmAvail = TRUE /\ zeros = {}
  /\ NoCacheObject /\ NoRemoteObject /\ NoFileObject /\ NoRangesObject
  /\ memory \in ReadTargets
  /\ crashed = FALSE
  /\ last = Idle

OverflowSizes == ReadSizes \cup {UINT64_MAX}

NextReads ==
  \/ \E file \in FileNames, offset \in FileOffsets, size \in FileSizes,
        fstat_ok \in BOOLEAN, mmap_ok \in BOOLEAN :
       memory = MemoryFileAtOffset
         /\ FileInitCall(file, offset, size, fstat_ok, mmap_ok)
  \/ \E file \in FileNames, offset \in FileOffsets,
        fstat_ok \in BOOLEAN, mmap_ok \in BOOLEAN :
       OfflineInitCall(file, offset, fstat_ok, mmap_ok)
  \/ memory = MemoryFileAtOffset /\ FileClearCall
  \/ \E start \in OfflineBounds, end \in OfflineBounds : ResetCall(start, end)
  \/ \E range \in Ranges : InsertCall(range)
  \/ \E addr \in Addr, size \in OverflowSizes : ReadCall(addr, size)
  \/ ReturnRead

SpecReads == InitReads /\ [][NextReads]_vars

\* C6: whatever the variant, a Read whose addr + size exceeds the 64-bit
\* range returns 0 (and copies nothing).
C6_OverflowingReadReturnsZero ==
  (last.op = "read" /\ last.addr + last.size > UINT64_MAX) =>
    /\ last.n = 0
    /\ last.data = <<>>
    /\ ~last.fault


(***************************************************************************)
(* Memory::ReadFully and Memory::ReadString of the object `memory`.         *)
(***************************************************************************)
\* sizeof(buffer) in ReadString (256 in the program).
BufferSize == 3

\* Memory::ReadFully: rc == size.
ReadFullyOk(rc, size) == rc = size

\* A plausible slip: the chunk ignores what is left of max_read.
ChunkSize_Whole(max_read, offset) == BufferSize

\* std::min(sizeof(buffer), max_read - offset).
ChunkSize(max_read, offset) == Min(BufferSize, max_read - offset)

\* A plausible slip: the last byte read is taken for a terminator.
StrNLen_LastByte(buffer, size) == IF size > 0 THEN size - 1 ELSE 0

\* strnlen(buffer, size): the index of the first zero byte, or size.
StrNLen(buffer, size) ==
  IF \E i \in 1 .. size : buffer[i] = 0
    THEN (CHOOSE i \in 1 .. size :
            buffer[i] = 0 /\ \A j \in 1 .. i - 1 : buffer[j] # 0) - 1
    ELSE size

\* No final ReadFully was made.
NoReread == [done |-> FALSE, want |-> 0, got |-> 0]

\* The loop of Memory::ReadString from `offset` on.  ok: the value returned;
\* str: the contents of *dst when it was assigned; chunks: for each chunk
\* read, the address it read at, what it asked for and got, and whether a
\* zero byte was among the bytes it got; reread: the final ReadFully.
RECURSIVE ReadStringFrom(_, _, _, _)
ReadStringFrom(addr, max_read, offset, chunks) ==
  IF offset >= max_read
    THEN [ok |-> FALSE, str |-> <<>>, chunks |-> chunks, reread |-> NoReread]
    ELSE
      LET read == ChunkSize(max_read, offset)
          r == Read(memory, Wrap(addr + offset), read)
          size == r.n
          length == StrNLen(r.data, size)
          seen == Append(chunks, [at |-> Wrap(addr + offset),
                                  want |-> read, got |-> size,
                                  zero |-> \E i \in 1 .. size : r.data[i] = 0])
      IN IF size = 0
           THEN [ok |-> FALSE, str |-> <<>>, chunks |-> seen,
                 reread |-> NoReread]
           ELSE IF length < size
             THEN IF offset = 0
                    THEN [ok |-> TRUE, str |-> SubSeq(r.data, 1, length),
                          chunks |-> seen, reread |-> NoReread]
                    ELSE LET total == offset + length
                             f == Read(memory, addr, total)
                         IN [ok |-> ReadFullyOk(f.n, total),
                             str |-> [i \in 1 .. total |->
                                        IF i <= f.n THEN f.data[i] ELSE 0],
                             chunks |-> seen,
                             reread |-> [done |-> TRUE, want |-> total,
                                         got |-> f.n]]
             ELSE ReadStringFrom(addr, max_read, offset + size, seen)

\* Memory::ReadString(addr, dst, max_read).
ReadString(addr, max_read) == ReadStringFrom(addr, max_read, 0, <<>>)

\* Sources the strings are read from: readable from address 0 up to a
\* limit, with at most two zero bytes.
StringEnds == {1, BufferSize + 2, AddrSpace - 1, AddrSpace}
ZeroSets == {{}} \cup {{z} : z \in Addr}
                 \cup {{z, z + 2} : z \in 0 .. UINT64_MAX - 2}

InitString ==
  /\ \E e \in StringEnds : readable = 0 .. e - 1
  /\ zeros \in ZeroSets
  /\ ptReadable = {} /\ vmAvail = FALSE
  /\ NoCacheObject /\ NoRemoteObject /\ NoFileObject /\ NoRangesObject
  /\ memory = Impl
  /\ crashed = FALSE
  /\ last = Idle

ReadStringCall(addr, max_read) ==
  /\ last = Idle
  /\ LET r == ReadString(addr, max_read)
     IN last' = [op |-> "string", addr |-> addr, max_read |-> max_read,
                 ok |-> r.ok, str |-> r.str, chunks |-> r.chunks,
                 reread |-> r.reread]
  /\ UNCHANGED <<envVars, cacheVars, remoteVars, fileVars, rangesVars, memory, crashed>>

ReturnString ==
  /\ last # Idle
  /\ last' = Idle
  /\ UNCHANGED <<envVars, cacheVars, remoteVars, fileVars, rangesVars, memory, crashed>>

MaxReads == 0 .. 2 * BufferSize + 2

NextString ==
  \/ \E addr \in Addr, max_read \in MaxReads : ReadStringCall(addr, max_read)
  \/ ReturnString

SpecString == InitString /\ [][NextString]_vars

\* A zero-terminated sequence of L bytes lies at addr: L non-zero bytes and
\* the zero byte after them, all readable.
StringAt(addr, L) ==
  /\ addr + L <= UINT64_MAX
  /\ \A i \in 0 .. L : addr + i \in readable
  /\ \A i \in 0 .. L - 1 : ByteAt(addr + i) # 0
  /\ ByteAt(addr + L) = 0

\* No zero byte among the first max_read bytes at addr (the addresses
\* addr + i as ReadString computes them, in uint64_t).
NoTerminator(addr, max_read) ==
  \A i \in 0 .. max_read - 1 : ByteAt(Wrap(addr + i)) # 0

\* C7 as stated: a string of any length L <= max_read is returned, and data
\* without a zero byte in its first max_read bytes is refused.
C7_StringUpToMaxRead ==
  last.op = "string" =>
    /\ \A L \in 0 .. last.max_read :
         StringAt(last.addr, L) => last.ok /\ last.str = Bytes(last.addr, L)
    /\ NoTerminator(last.addr, last.max_read) => ~last.ok

\* C7 amended: a string of length L < max_read (its terminator is among the
\* first max_read bytes) is returned exactly, also when L exceeds the chunk;
\* data without a zero byte in its first max_read bytes is refused, which
\* includes a string of length L = max_read.  (The first max_read bytes are
\* those at addr + i in uint64_t, as in NoTerminator.)
C7_StringBelowMaxRead ==
  last.op = "string" =>
    /\ \A L \in 0 .. last.max_read - 1 :
         StringAt(last.addr, L) => last.ok /\ last.str = Bytes(last.addr, L)
    /\ NoTerminator(last.addr, last.max_read) => ~last.ok

\* A string longer than the chunk was returned after a scan of several
\* chunks.
C7_Witness ==
  /\ last.op = "string"
  /\ last.ok
  /\ Len(last.str) > BufferSize
  /\ StringAt(last.addr, Len(last.str))
  /\ Len(last.chunks) > 1

\* C10 as stated: ReadString fails whenever a chunk read returned fewer
\* bytes than it asked for.
C10_ShortChunkFails ==
  last.op = "string" =>
    ((\E i \in 1 .. Len(last.chunks) :
        last.chunks[i].got < last.chunks[i].want) => ~last.ok)

\* Sources made of two adjacent ranges: a range-set whose first range ends,
\* and whose second range starts, at a cut; each range maps an address to
\* the same address of the backing store.
Cuts == {1, BufferSize + 1}
AdjacentRanges(c) ==
  {MemoryRange(Impl, 0, c, 0), MemoryRange(Impl, c, UINT64_MAX - c, c)}

\* ReadString of the backing store itself or of a range-set of two adjacent
\* ranges over it.
InitChunks ==
  /\ \E e \in StringEnds : readable = 0 .. e - 1
  /\ zeros \in ZeroSets
  /\ ptReadable = {} /\ vmAvail = FALSE
  /\ NoCacheObject /\ NoRemoteObject /\ NoFileObject
  /\ \/ memory = Impl /\ NoRangesObject
     \/ \E c \in Cuts :
          /\ memory = MemoryRanges
          /\ inserted = AdjacentRanges(c)
          /\ maps_ = RangesInsert(
                       RangesInsert(<<>>, MemoryRange(Impl, 0, c, 0)),
                       MemoryRange(Impl, c, UINT64_MAX - c, c))
  /\ crashed = FALSE
  /\ last = Idle

SpecChunks == InitChunks /\ [][NextString]_vars

\* The offset at which chunk i was read: the bytes the chunks before it
\* returned.
RECURSIVE OffsetOf(_, _)
OffsetOf(chunks, i) ==
  IF i <= 1 THEN 0 ELSE OffsetOf(chunks, i - 1) + chunks[i - 1].got

\* C10 amended, first weaker reading: ReadString fails whenever a chunk
\* read returned fewer bytes than it asked for and no zero byte was among
\* them.  (Not the amended claim: it is refuted by the state C10_Witness
\* describes.)
ShortChunkWithoutTerminatorFails ==
  last.op = "string" =>
    ((\E i \in 1 .. Len(last.chunks) :
        /\ last.chunks[i].got < last.chunks[i].want
        /\ ~last.chunks[i].zero) => ~last.ok)

\* C10 amended: ReadString fails whenever a chunk read returned no bytes.
\* A chunk that came back short but not empty is treated like a full one:
\* every chunk i is read at addr + offset for min(sizeof(buffer), max_read -
\* offset) bytes, offset being the bytes the chunks before it returned, and
\* each of those returned at least one byte and no zero byte.  ReadString
\* returns true exactly when the last chunk read holds a zero byte and,
\* unless that chunk is the first one, the final ReadFully(addr, offset +
\* length) returned all its bytes.
C10_EmptyChunkFails ==
  last.op = "string" =>
    LET chunks == last.chunks
        n == Len(chunks)
    IN /\ (\E i \in 1 .. n : chunks[i].got = 0) => ~last.ok
       /\ \A i \in 1 .. n :
            /\ chunks[i].at = Wrap(last.addr + OffsetOf(chunks, i))
            /\ chunks[i].want =
                 Min(BufferSize, last.max_read - OffsetOf(chunks, i))
            /\ i < n => chunks[i].got > 0 /\ ~chunks[i].zero
       /\ last.ok <=>
            /\ n > 0
            /\ chunks[n].zero
            /\ n > 1 => /\ last.reread.done
                        /\ last.reread.got = last.reread.want
       /\ last.reread.done =>
            /\ n > 1 /\ chunks[n].zero
            /\ last.reread.want >= OffsetOf(chunks, n)
            /\ last.reread.want < OffsetOf(chunks, n) + chunks[n].got
            /\ Len(last.str) = last.reread.want

\* A first chunk came back short but not empty and without a zero byte, in
\* a request that ends inside the address space, and ReadString returned
\* true: the string ends where the first range ends and its terminator is
\* the first byte of the next range.
C10_Witness ==
  /\ last.op = "string"
  /\ last.ok
  /\ last.addr + last.max_read <= UINT64_MAX
  /\ Len(last.chunks) = 2
  /\ last.chunks[1].got > 0
  /\ last.chunks[1].got < last.chunks[1].want
  /\ ~last.chunks[1].zero
  /\ last.str = Bytes(last.addr, last.chunks[1].got)

====
